---- MODULE Spec2Model ----
(***************************************************************************)
(* Model of the learning-activity core of math2nd2nd:                      *)
(*   - the XState activity machine (core/engine/activity-machine.ts),      *)
(*   - the chip registry ChipSystemManager (core/engine/chip-system.ts),   *)
(*   - the module-1 host hook that drives both (useIsoscelesActivity.ts).  *)
(* XState v5 semantics used: a child state's `on` entry shadows the root   *)
(* `on`; the first candidate whose guard passes is taken; a transition     *)
(* whose target is its own source does not re-enter it (reenter defaults   *)
(* to false); transition actions run before the target's entry actions;    *)
(* assign() merges the returned partial into the old context.              *)
(***************************************************************************)
EXTENDS Integers, Sequences, FiniteSets, TLC

VARIABLES state, context, event, chips, collectedChips, saved, call

vars == <<state, context, event, chips, collectedChips, saved, call>>
machineVars == <<state, context, event>>
registryVars == <<chips, collectedChips, saved, call>>

\* JavaScript null (selectedAnswer, error, congruenceType)
Null == "null"

----------------------------------------------------------------------------
\* Bounds of the model

\* how many ids of ChipIdOrder the host and the tests may name in a call
MaxChipInputs == 3

----------------------------------------------------------------------------
\* Generic helpers

Range(s) == {s[i] : i \in 1..Len(s)}

Min(a, b) == IF a < b THEN a ELSE b

Max(a, b) == IF a > b THEN a ELSE b

\* Array.prototype.includes
Includes(arr, x) == \E i \in 1..Len(arr) : arr[i] = x

\* Array.from(new Set(arr)): first occurrences, in order
RECURSIVE Dedup(_)
Dedup(arr) ==
  IF arr = <<>> THEN <<>>
  ELSE LET front == Dedup(SubSeq(arr, 1, Len(arr) - 1))
           x == arr[Len(arr)]
       IN IF Includes(front, x) THEN front ELSE Append(front, x)

\* Object.assign({}, ctx, partial): the merge XState's assign() performs
AssignMerge(ctx, partial) ==
  [k \in (DOMAIN ctx) \cup (DOMAIN partial) |->
     IF k \in DOMAIN partial THEN partial[k] ELSE ctx[k]]

----------------------------------------------------------------------------
\* chip-system.ts: static data

CHIP_IDS ==
  <<"side-AB", "side-AC", "side-BC", "side-BD", "side-CD",
    "common-AD", "angle-BAD", "angle-CAD", "angle-B", "angle-C">>

SAS_BASE == <<"side-AB", "side-AC", "common-AD", "angle-BAD", "angle-CAD">>

\* Array.prototype.slice(0, n)
Slice0(arr, n) == SubSeq(arr, 1, Min(n, Len(arr)))

SAS_PATTERNS ==
  << [name |-> "Standard SAS",
      requiredChips |-> Slice0(SAS_BASE, 3)],
     [name |-> "Alternative SAS",
      requiredChips |-> Slice0(SelectSeq(SAS_BASE, LAMBDA id : id # "angle-BAD"), 3)],
     [name |-> "Complete SAS",
      requiredChips |-> <<"side-AB", "side-AC", "common-AD">>] >>

----------------------------------------------------------------------------
\* geometry/triangle.ts, in fixed point: a coordinate or a length is an
\* integer number of thousandths of a plane unit

\* floor(sqrt(n)) by bisection, lo*lo <= n < (hi+1)*(hi+1)
RECURSIVE ISqrtBetween(_, _, _)
ISqrtBetween(n, lo, hi) ==
  IF lo >= hi THEN lo
  ELSE LET mid == (lo + hi + 1) \div 2
       IN IF mid * mid <= n THEN ISqrtBetween(n, mid, hi)
          ELSE ISqrtBetween(n, lo, mid - 1)

\* Math.sqrt
Sqrt(n) == ISqrtBetween(n, 0, Min(n, 46340))

Abs(x) == IF x < 0 THEN -x ELSE x

\* Math.sqrt(dx^2 + dy^2).  The sum of squares must fit 32 bits: of a
\* difference above 32.767 the last digit is dropped before squaring, and the
\* length is then exact to the hundredth.
distance(p1, p2) ==
  LET dx == p2.x - p1.x
      dy == p2.y - p1.y
      k == IF Max(Abs(dx), Abs(dy)) > 32767 THEN 10 ELSE 1
  IN k * Sqrt((dx \div k) * (dx \div k) + (dy \div k) * (dy \div k))

\* the default tolerance 0.001
DefaultTolerance == 1

isIsosceles(triangle) ==
  Abs(distance(triangle.A, triangle.B) - distance(triangle.A, triangle.C))
    < DefaultTolerance

Pt(x, y) == [x |-> x, y |-> y]

\* A (2, 0.5), B (1, 2.5), C (3, 2.5)
ISOSCELES_TRIANGLE ==
  [A |-> Pt(2000, 500), B |-> Pt(1000, 2500), C |-> Pt(3000, 2500)]

\* a triangle with AB # AC, as a caller other than module 1 may pass
SCALENE_TRIANGLE ==
  [A |-> Pt(2000, 500), B |-> Pt(1000, 2500), C |-> Pt(4000, 2500)]

TriangleInputs == {ISOSCELES_TRIANGLE, SCALENE_TRIANGLE}

\* isIsosceles of each input triangle, evaluated once
IsIsoscelesOf == [t \in TriangleInputs |-> isIsosceles(t)]

isEqual(value1, value2, tolerance) == Abs(value1 - value2) < tolerance

isAngleEqual(angle1, angle2, tolerance) == Abs(angle1 - angle2) < tolerance

\* An angle is an integer number of thousandths of a degree.  A value in
\* radians is kept in the unit pi/180000, so that Math.PI is 180000 and
\* toDegrees is the change of unit (radians * 180) / Math.PI carried out on
\* that representation.
PI == 180000

RECURSIVE Gcd(_, _)
Gcd(a, b) == IF b = 0 THEN a ELSE Gcd(b, a % b)

\* Math.atan2(y, x) for x > 0, y >= 0 reduced to lowest terms, rounded to the
\* unit; the directions are those between the vertices of CongruenceInputs
AtanTable(y, x) ==
  CASE y = 0 -> 0
    [] y = 1 /\ x = 2 -> 26565
    [] y = 3 /\ x = 4 -> 36870
    [] y = 39 /\ x = 41 -> 43568
    [] y = 1 /\ x = 1 -> 45000
    [] y = 4 /\ x = 3 -> 53130
    [] y = 2 /\ x = 1 -> 63435

\* Math.atan2(y, x), in (-PI, PI]
atan2(y, x) ==
  LET g == Gcd(Abs(y), Abs(x))
      first == IF x = 0 THEN PI \div 2 ELSE AtanTable(Abs(y) \div g, Abs(x) \div g)
      upper == IF x < 0 THEN PI - first ELSE first
  IN IF g = 0 THEN 0
     ELSE IF y < 0 THEN -upper ELSE upper

angle(vertex, p1, p2) ==
  LET v1 == Pt(p1.x - vertex.x, p1.y - vertex.y)
      v2 == Pt(p2.x - vertex.x, p2.y - vertex.y)
  IN atan2(v2.y, v2.x) - atan2(v1.y, v1.x)

toDegrees(radians) == (radians * 180) \div (PI \div 1000)

measureTriangle(triangle) ==
  [sides |-> [AB |-> distance(triangle.A, triangle.B),
              AC |-> distance(triangle.A, triangle.C),
              BC |-> distance(triangle.B, triangle.C)],
   angles |-> [A |-> Abs(toDegrees(angle(triangle.A, triangle.B, triangle.C))),
               B |-> Abs(toDegrees(angle(triangle.B, triangle.A, triangle.C))),
               C |-> Abs(toDegrees(angle(triangle.C, triangle.A, triangle.B)))]]

----------------------------------------------------------------------------
\* geometry/congruence.ts.  A CongruenceCondition | null result is a sequence:
\* <<>> for null, <<condition>> otherwise.

NoCondition == <<>>

Condition(type, elements) ==
  <<[type |-> type, elements |-> elements, isValid |-> TRUE]>>

\* for (const pattern of patterns) if (matches(pattern)) return ...; return null
\* hits: the indices of the patterns that match
FirstPattern(type, patterns, hits) ==
  IF hits = {} THEN NoCondition
  ELSE Condition(type, patterns[CHOOSE i \in hits : \A j \in hits : i <= j].elements)

checkSAS(triangle1, triangle2, tolerance) ==
  LET m1 == measureTriangle(triangle1)
      m2 == measureTriangle(triangle2)
      patterns ==
        << [sides |-> <<m1.sides.AB, m1.sides.AC>>, angle |-> m1.angles.A,
            otherSides |-> <<m2.sides.AB, m2.sides.AC>>, otherAngle |-> m2.angles.A,
            elements |-> <<"AB", "AC", "angle A">>],
           [sides |-> <<m1.sides.AB, m1.sides.BC>>, angle |-> m1.angles.B,
            otherSides |-> <<m2.sides.AB, m2.sides.BC>>, otherAngle |-> m2.angles.B,
            elements |-> <<"AB", "BC", "angle B">>],
           [sides |-> <<m1.sides.AC, m1.sides.BC>>, angle |-> m1.angles.C,
            otherSides |-> <<m2.sides.AC, m2.sides.BC>>, otherAngle |-> m2.angles.C,
            elements |-> <<"AC", "BC", "angle C">>] >>
      Matches(pattern) ==
        /\ isEqual(pattern.sides[1], pattern.otherSides[1], tolerance)
        /\ isEqual(pattern.sides[2], pattern.otherSides[2], tolerance)
        /\ isAngleEqual(pattern.angle, pattern.otherAngle, tolerance)
  IN FirstPattern("SAS", patterns,
                  {i \in 1..Len(patterns) : Matches(patterns[i])})

checkASA(triangle1, triangle2, tolerance) ==
  LET m1 == measureTriangle(triangle1)
      m2 == measureTriangle(triangle2)
      patterns ==
        << [angles |-> <<m1.angles.A, m1.angles.B>>, side |-> m1.sides.AB,
            otherAngles |-> <<m2.angles.A, m2.angles.B>>, otherSide |-> m2.sides.AB,
            elements |-> <<"angle A", "AB", "angle B">>],
           [angles |-> <<m1.angles.B, m1.angles.C>>, side |-> m1.sides.BC,
            otherAngles |-> <<m2.angles.B, m2.angles.C>>, otherSide |-> m2.sides.BC,
            elements |-> <<"angle B", "BC", "angle C">>],
           [angles |-> <<m1.angles.A, m1.angles.C>>, side |-> m1.sides.AC,
            otherAngles |-> <<m2.angles.A, m2.angles.C>>, otherSide |-> m2.sides.AC,
            elements |-> <<"angle A", "AC", "angle C">>] >>
      Matches(pattern) ==
        /\ isAngleEqual(pattern.angles[1], pattern.otherAngles[1], tolerance)
        /\ isAngleEqual(pattern.angles[2], pattern.otherAngles[2], tolerance)
        /\ isEqual(pattern.side, pattern.otherSide, tolerance)
  IN FirstPattern("ASA", patterns,
                  {i \in 1..Len(patterns) : Matches(patterns[i])})

checkSSS(triangle1, triangle2, tolerance) ==
  LET sides1 == measureTriangle(triangle1).sides
      sides2 == measureTriangle(triangle2).sides
  IN IF /\ isEqual(sides1.AB, sides2.AB, tolerance)
        /\ isEqual(sides1.AC, sides2.AC, tolerance)
        /\ isEqual(sides1.BC, sides2.BC, tolerance)
     THEN Condition("SSS", <<"AB", "AC", "BC">>)
     ELSE NoCondition

\* hasRightAngle1 / hasRightAngle2 of checkRHS and checkRHA
hasRightAngle(angles, tolerance) ==
  \/ isAngleEqual(angles.A, 90000, tolerance)
  \/ isAngleEqual(angles.B, 90000, tolerance)
  \/ isAngleEqual(angles.C, 90000, tolerance)

\* Math.max(sides.AB, sides.AC, sides.BC)
hypotenuse(sides) == Max(sides.AB, Max(sides.AC, sides.BC))

checkRHS(triangle1, triangle2, tolerance) ==
  LET m1 == measureTriangle(triangle1)
      m2 == measureTriangle(triangle2)
      hypotenuse1 == hypotenuse(m1.sides)
      hypotenuse2 == hypotenuse(m2.sides)
      otherSides1 ==
        SelectSeq(<<m1.sides.AB, m1.sides.AC, m1.sides.BC>>, LAMBDA x : x # hypotenuse1)
      otherSides2 ==
        SelectSeq(<<m2.sides.AB, m2.sides.AC, m2.sides.BC>>, LAMBDA x : x # hypotenuse2)
  IN IF ~hasRightAngle(m1.angles, tolerance) \/ ~hasRightAngle(m2.angles, tolerance)
     THEN NoCondition
     ELSE IF /\ isEqual(hypotenuse1, hypotenuse2, tolerance)
             /\ \E i \in 1..Len(otherSides1), j \in 1..Len(otherSides2) :
                  isEqual(otherSides1[i], otherSides2[j], tolerance)
          THEN Condition("RHS", <<"right angle", "hypotenuse", "one side">>)
          ELSE NoCondition

checkRHA(triangle1, triangle2, tolerance) ==
  LET m1 == measureTriangle(triangle1)
      m2 == measureTriangle(triangle2)
      hypotenuse1 == hypotenuse(m1.sides)
      hypotenuse2 == hypotenuse(m2.sides)
      acuteAngles1 ==
        SelectSeq(<<m1.angles.A, m1.angles.B, m1.angles.C>>, LAMBDA a : a < 89000)
      acuteAngles2 ==
        SelectSeq(<<m2.angles.A, m2.angles.B, m2.angles.C>>, LAMBDA a : a < 89000)
  IN IF ~hasRightAngle(m1.angles, tolerance) \/ ~hasRightAngle(m2.angles, tolerance)
     THEN NoCondition
     ELSE IF /\ isEqual(hypotenuse1, hypotenuse2, tolerance)
             /\ \E i \in 1..Len(acuteAngles1), j \in 1..Len(acuteAngles2) :
                  isAngleEqual(acuteAngles1[i], acuteAngles2[j], tolerance)
          THEN Condition("RHA", <<"right angle", "hypotenuse", "one acute angle">>)
          ELSE NoCondition

\* the five checks by name
Check(name, triangle1, triangle2, tolerance) ==
  CASE name = "SAS" -> checkSAS(triangle1, triangle2, tolerance)
    [] name = "ASA" -> checkASA(triangle1, triangle2, tolerance)
    [] name = "SSS" -> checkSSS(triangle1, triangle2, tolerance)
    [] name = "RHS" -> checkRHS(triangle1, triangle2, tolerance)
    [] name = "RHA" -> checkRHA(triangle1, triangle2, tolerance)

\* for (const checkCondition of conditions) { if (result) return result }
RECURSIVE FirstCondition(_, _, _, _)
FirstCondition(conditions, triangle1, triangle2, tolerance) ==
  IF conditions = <<>> THEN NoCondition
  ELSE LET result == Check(Head(conditions), triangle1, triangle2, tolerance)
       IN IF result # NoCondition THEN result
          ELSE FirstCondition(Tail(conditions), triangle1, triangle2, tolerance)

\* variant: the side check runs before the two angle-based checks
checkCongruence_sidesFirst(triangle1, triangle2, tolerance) ==
  FirstCondition(<<"SSS", "SAS", "ASA", "RHS", "RHA">>, triangle1, triangle2, tolerance)

checkCongruence(triangle1, triangle2, tolerance) ==
  FirstCondition(<<"SAS", "ASA", "SSS", "RHS", "RHA">>, triangle1, triangle2, tolerance)

----------------------------------------------------------------------------
\* geometry/fold.ts.  A fold angle is an integer number of thousandths of a
\* degree, a percentage an integer number of thousandths of a percent.

\* variant: the percentage is not capped
detectOverlap_noCap(triangle, foldAngle) ==
  LET threshold == 85000
      overlapPercentage == ((foldAngle - threshold) * 100) \div ((180000 - threshold) \div 1000)
      atRightAngle == IF foldAngle >= 90000 THEN <<"angle-B", "angle-C">> ELSE <<>>
      overlappingElements ==
        IF foldAngle >= 170000 THEN Append(atRightAngle, "side-BC-segments")
        ELSE atRightAngle
  IN IF foldAngle < threshold
     THEN [isOverlapping |-> FALSE, overlapPercentage |-> 0, overlappingElements |-> <<>>]
     ELSE [isOverlapping |-> TRUE, overlapPercentage |-> overlapPercentage,
           overlappingElements |-> overlappingElements]

detectOverlap(triangle, foldAngle) ==
  LET threshold == 85000
      overlapPercentage ==
        Min(100000,
            ((foldAngle - threshold) * 100) \div ((180000 - threshold) \div 1000))
      atRightAngle == IF foldAngle >= 90000 THEN <<"angle-B", "angle-C">> ELSE <<>>
      overlappingElements ==
        IF foldAngle >= 170000 THEN Append(atRightAngle, "side-BC-segments")
        ELSE atRightAngle
  IN IF foldAngle < threshold
     THEN [isOverlapping |-> FALSE, overlapPercentage |-> 0, overlappingElements |-> <<>>]
     ELSE [isOverlapping |-> TRUE, overlapPercentage |-> overlapPercentage,
           overlappingElements |-> overlappingElements]

----------------------------------------------------------------------------
\* geometry/inference.ts.  A call either throws or returns a value.

Thrown == [threw |-> TRUE]

Returned(v) == [threw |-> FALSE, value |-> v]

\* variant: a sum of exactly 180 is let through
calculateThirdAngle_sumAllowed(angleA, angleB) ==
  IF angleA < 0 \/ angleB < 0 \/ angleA + angleB > 180000 THEN Thrown
  ELSE Returned(180000 - angleA - angleB)

calculateThirdAngle(angleA, angleB) ==
  IF angleA < 0 \/ angleB < 0 \/ angleA + angleB >= 180000 THEN Thrown
  ELSE Returned(180000 - angleA - angleB)

----------------------------------------------------------------------------
\* chip-system.ts: ChipSystemManager.  A registry is the pair of its two
\* private fields, [chips, collectedChips]; a chip keeps its two mutable
\* fields, the others are the constants of CHIP_DEFINITIONS.  The collected
\* Set is modelled by its elements (its insertion order is not observed by
\* any operation below).

ChipIdSet == Range(CHIP_IDS)

\* CHIP_DEFINITIONS[id].validationRule(triangle, foldPoint); no rule reads foldPoint
validationRule(id, triangle) ==
  IF id \in {"side-AB", "side-AC"} THEN IsIsoscelesOf[triangle] ELSE TRUE

Reg(cs, cc) == [chips |-> cs, collectedChips |-> cc]

\* constructor -> initializeChips
initializeChips ==
  Reg([id \in ChipIdSet |-> [collected |-> FALSE, isAvailable |-> FALSE]], {})

\* variant: a chip that becomes unavailable loses its collected flag
updateAvailability_dropsCollected(reg, triangle) ==
  Reg([id \in DOMAIN reg.chips |->
         [collected |-> reg.chips[id].collected /\ validationRule(id, triangle),
          isAvailable |-> validationRule(id, triangle)]],
      reg.collectedChips)

updateAvailability(reg, triangle) ==
  Reg([id \in DOMAIN reg.chips |->
         [reg.chips[id] EXCEPT !.isAvailable = validationRule(id, triangle)]],
      reg.collectedChips)

\* variant: the cached isAvailable is trusted, the rule is not re-evaluated
collectChipAccepts_staleAvailability(reg, chipId, triangle) ==
  IF chipId \notin DOMAIN reg.chips THEN FALSE
  ELSE IF reg.chips[chipId].collected \/ ~reg.chips[chipId].isAvailable THEN FALSE
  ELSE TRUE

\* the boolean collectChip returns
collectChipAccepts(reg, chipId, triangle) ==
  IF chipId \notin DOMAIN reg.chips THEN FALSE
  ELSE IF reg.chips[chipId].collected \/ ~reg.chips[chipId].isAvailable THEN FALSE
  ELSE IF ~validationRule(chipId, triangle) THEN FALSE
  ELSE TRUE

\* variant: the id is recorded in the collected-set, the chip's flag is not set
ChipSystem_collectChip_noFlag(reg, chipId, triangle) ==
  IF ~collectChipAccepts(reg, chipId, triangle) THEN reg
  ELSE Reg(reg.chips, reg.collectedChips \cup {chipId})

\* the registry collectChip leaves
ChipSystem_collectChip(reg, chipId, triangle) ==
  IF ~collectChipAccepts(reg, chipId, triangle) THEN reg
  ELSE Reg([reg.chips EXCEPT ![chipId].collected = TRUE],
           reg.collectedChips \cup {chipId})

\* the boolean uncollectChip returns
uncollectChipAccepts(reg, chipId) ==
  IF chipId \notin DOMAIN reg.chips THEN FALSE
  ELSE reg.chips[chipId].collected

\* variant: the flag is cleared, the id stays in the collected-set
uncollectChip_keepsId(reg, chipId) ==
  IF ~uncollectChipAccepts(reg, chipId) THEN reg
  ELSE Reg([reg.chips EXCEPT ![chipId].collected = FALSE], reg.collectedChips)

uncollectChip(reg, chipId) ==
  IF ~uncollectChipAccepts(reg, chipId) THEN reg
  ELSE Reg([reg.chips EXCEPT ![chipId].collected = FALSE],
           reg.collectedChips \ {chipId})

checkSASCompletion(reg) ==
  LET collectedIds == reg.collectedChips
  IN \E p \in 1..Len(SAS_PATTERNS) :
       \A i \in 1..Len(SAS_PATTERNS[p].requiredChips) :
         SAS_PATTERNS[p].requiredChips[i] \in collectedIds

\* isSASChipSetComplete(collectedChipIds), on the elements of the array
isSASChipSetComplete(ids) ==
  LET hasAngles == "angle-BAD" \in ids /\ "angle-CAD" \in ids
      hasSides == "side-AB" \in ids /\ "side-AC" \in ids
      hasCommon == "common-AD" \in ids
  IN hasAngles /\ hasSides /\ hasCommon

\* CHIP_DEFINITIONS[id].order
order(id) ==
  CASE id = "side-AB" -> 1
    [] id = "side-AC" -> 2
    [] id = "common-AD" -> 3
    [] id = "angle-BAD" -> 4
    [] id = "angle-CAD" -> 5
    [] id = "side-BC" -> 6
    [] id = "angle-B" -> 7
    [] id = "angle-C" -> 8
    [] id = "side-BD" -> 9
    [] id = "side-CD" -> 10

\* [...ids].sort((a, b) => a.order - b.order)
RECURSIVE SortByOrder(_)
SortByOrder(ids) ==
  IF ids = {} THEN <<>>
  ELSE LET first == CHOOSE id \in ids : \A other \in ids : order(id) <= order(other)
       IN <<first>> \o SortByOrder(ids \ {first})

\* the ids of the chips getCollectedChips() returns, in its order
getCollectedChips(reg) ==
  SortByOrder({id \in DOMAIN reg.chips : reg.chips[id].collected})

\* variant: the collected-set is cleared, the chips keep their flags
reset_keepsFlags(reg) == Reg(reg.chips, {})

reset(reg) ==
  Reg([id \in DOMAIN reg.chips |-> [collected |-> FALSE, isAvailable |-> FALSE]], {})

getProgress(reg) ==
  [collected |-> Cardinality(reg.collectedChips),
   available |-> Cardinality({id \in DOMAIN reg.chips : reg.chips[id].isAvailable}),
   total |-> Cardinality(DOMAIN reg.chips)]

exportState(reg) ==
  [collectedChips |-> reg.collectedChips,
   chipStates |-> [id \in DOMAIN reg.chips |->
                     [collected |-> reg.chips[id].collected,
                      isAvailable |-> reg.chips[id].isAvailable]]]

\* variant: isAvailable is not restored
importState_noAvailability(reg, st) ==
  Reg([id \in DOMAIN reg.chips |->
         IF id \in DOMAIN st.chipStates
         THEN [collected |-> st.chipStates[id].collected,
               isAvailable |-> reg.chips[id].isAvailable]
         ELSE reg.chips[id]],
      st.collectedChips)

importState(reg, st) ==
  Reg([id \in DOMAIN reg.chips |->
         IF id \in DOMAIN st.chipStates
         THEN [collected |-> st.chipStates[id].collected,
               isAvailable |-> st.chipStates[id].isAvailable]
         ELSE reg.chips[id]],
      st.collectedChips)

\* Math.round(num / den) for num >= 0, den > 0: halves round up
RoundDiv(num, den) == (2 * num + den) \div (2 * den)

\* the required ids of validateChipCombination, in its order
REQUIRED_CHIPS == <<"angle-BAD", "angle-CAD", "side-AB", "side-AC", "common-AD">>

\* variant: the required ids are those of a SAS_PATTERNS entry
validateChipCombination_patternIds(collectedChipIds) ==
  LET required == SAS_PATTERNS[1].requiredChips
      missing == SelectSeq(required, LAMBDA id : id \notin collectedChipIds)
      isValid == Len(missing) = 0
  IN [isValid |-> isValid,
      congruenceType |-> IF isValid THEN "SAS" ELSE Null,
      missingChips |-> missing]

\* validateChipCombination(collectedChipIds), on the elements of the array
validateChipCombination(collectedChipIds) ==
  LET required == REQUIRED_CHIPS
      missing == SelectSeq(required, LAMBDA id : id \notin collectedChipIds)
      isValid == Len(missing) = 0
  IN [isValid |-> isValid,
      congruenceType |-> IF isValid THEN "SAS" ELSE Null,
      missingChips |-> missing]

\* validateCollection(triangle, foldPoint): neither argument is read; the
\* feedback text is kept as its tier
validateCollection(reg) ==
  LET collectedIds == reg.collectedChips
      validation == validateChipCombination(collectedIds)
      missing == validation.missingChips
  IN [isValid |-> validation.isValid,
      congruenceType |-> validation.congruenceType,
      missingChips |-> validation.missingChips,
      completionPercentage |->
        IF validation.isValid THEN 100
        ELSE RoundDiv(Cardinality(collectedIds) * 100, 4),
      feedback |->
        IF validation.isValid THEN "complete"
        ELSE IF Len(missing) = 1 THEN "one-missing"
        ELSE IF Len(missing) <= 2 THEN "few-missing"
        ELSE "many-missing"]

----------------------------------------------------------------------------
\* activity-machine.ts

States ==
  {"action", "inquiry", "discovery", "misconception", "justification", "completed"}

initialContext ==
  [foldAngle |-> 0,
   collectedChips |-> <<>>,
   selectedAnswer |-> Null,
   highlightedElements |-> <<>>,
   stepCompletion |-> [action |-> FALSE, inquiry |-> FALSE, discovery |-> FALSE,
                       misconception |-> FALSE, justification |-> FALSE],
   error |-> Null]

\* guards
canProceedFromAction(ctx) == ctx.foldAngle >= 90

\* variant: any selected answer lets the learner through
canProceedFromInquiry_anyAnswer(ctx) == ctx.selectedAnswer # Null

canProceedFromInquiry(ctx) == ctx.selectedAnswer = "congruence"

canProceedFromDiscovery(ctx) ==
  LET ids == ctx.collectedChips
  IN \E p \in 1..Len(SAS_PATTERNS) :
       \A i \in 1..Len(SAS_PATTERNS[p].requiredChips) :
         Includes(ids, SAS_PATTERNS[p].requiredChips[i])

\* variant: the id is not checked against CHIP_DEFINITIONS
hasValidChip_anyId(ctx, ev) ==
  IF ev.type # "COLLECT_CHIP" THEN FALSE
  ELSE ~Includes(ctx.collectedChips, ev.chipId)

hasValidChip(ctx, ev) ==
  IF ev.type # "COLLECT_CHIP" THEN FALSE
  ELSE Includes(CHIP_IDS, ev.chipId) /\ ~Includes(ctx.collectedChips, ev.chipId)

Guard(name, ctx, ev) ==
  CASE name = "canProceedFromAction" -> canProceedFromAction(ctx)
    [] name = "canProceedFromInquiry" -> canProceedFromInquiry(ctx)
    [] name = "canProceedFromDiscovery" -> canProceedFromDiscovery(ctx)
    [] name = "hasValidChip" -> hasValidChip(ctx, ev)
    [] name = "none" -> TRUE

\* actions: each returns the partial update handed to assign()
\* variant: the angle is stored as sent
setFoldAngle_noClamp(ctx, ev) ==
  [foldAngle |-> IF ev.type = "SET_FOLD_ANGLE" THEN ev.angle ELSE ctx.foldAngle]

setFoldAngle(ctx, ev) ==
  [foldAngle |-> IF ev.type = "SET_FOLD_ANGLE"
                 THEN Max(0, Min(180, ev.angle))
                 ELSE ctx.foldAngle]

collectChip(ctx, ev) ==
  [collectedChips |->
     IF ev.type = "COLLECT_CHIP" /\ ~Includes(ctx.collectedChips, ev.chipId)
     THEN Append(ctx.collectedChips, ev.chipId)
     ELSE ctx.collectedChips]

selectAnswer(ctx, ev) ==
  [selectedAnswer |-> IF ev.type = "SELECT_ANSWER" THEN ev.answer
                      ELSE ctx.selectedAnswer]

highlightElements(ctx, ev) ==
  [highlightedElements |->
     IF ev.type # "HIGHLIGHT_ELEMENTS" THEN ctx.highlightedElements
     ELSE Dedup(ctx.highlightedElements \o ev.elements)]

markActionCompleted(ctx, ev) ==
  [stepCompletion |-> [ctx.stepCompletion EXCEPT !.action = TRUE]]

\* variant: the flag of the step before is set instead
markInquiryCompleted_wrongFlag(ctx, ev) ==
  [stepCompletion |-> [ctx.stepCompletion EXCEPT !.action = TRUE]]

markInquiryCompleted(ctx, ev) ==
  [stepCompletion |-> [ctx.stepCompletion EXCEPT !.inquiry = TRUE]]

markDiscoveryCompleted(ctx, ev) ==
  [stepCompletion |-> [ctx.stepCompletion EXCEPT !.discovery = TRUE]]

markJustificationCompleted(ctx, ev) ==
  [stepCompletion |-> [ctx.stepCompletion EXCEPT !.justification = TRUE]]

setError(ctx, ev) ==
  [error |-> IF ev.type = "ERROR" THEN ev.error ELSE Null]

clearError(ctx, ev) == [error |-> Null]

resetToInitial(ctx, ev) == initialContext

\* new Date(): the value is opaque to the machine
markCompleted(ctx, ev) == [completedAt |-> "Date"]

Exec(name, ctx, ev) ==
  AssignMerge(ctx,
    CASE name = "setFoldAngle" -> setFoldAngle(ctx, ev)
      [] name = "collectChip" -> collectChip(ctx, ev)
      [] name = "selectAnswer" -> selectAnswer(ctx, ev)
      [] name = "highlightElements" -> highlightElements(ctx, ev)
      [] name = "markActionCompleted" -> markActionCompleted(ctx, ev)
      [] name = "markInquiryCompleted" -> markInquiryCompleted(ctx, ev)
      [] name = "markDiscoveryCompleted" -> markDiscoveryCompleted(ctx, ev)
      [] name = "markJustificationCompleted" -> markJustificationCompleted(ctx, ev)
      [] name = "setError" -> setError(ctx, ev)
      [] name = "clearError" -> clearError(ctx, ev)
      [] name = "resetToInitial" -> resetToInitial(ctx, ev)
      [] name = "markCompleted" -> markCompleted(ctx, ev))

RECURSIVE ExecAll(_, _, _)
ExecAll(names, ctx, ev) ==
  IF names = <<>> THEN ctx
  ELSE ExecAll(Tail(names), Exec(Head(names), ctx, ev), ev)

\* one candidate transition of an `on` entry; target "" is a targetless one
T(target, guard, acts) == [target |-> target, guard |-> guard, actions |-> acts]

ResetT == <<T("action", "none", <<"resetToInitial">>)>>

\* variant: SELECT_ANSWER is declared on the root as well
RootOn_selectAnywhere(type) ==
  CASE type = "SET_FOLD_ANGLE" -> <<T("", "none", <<"setFoldAngle">>)>>
    [] type = "SELECT_ANSWER" -> <<T("", "none", <<"selectAnswer">>)>>
    [] OTHER -> <<>>

\* activityMachine.on
RootOn(type) ==
  IF type = "SET_FOLD_ANGLE" THEN <<T("", "none", <<"setFoldAngle">>)>> ELSE <<>>

\* activityMachine.states.action.on
actionOn(type) ==
  CASE type = "COMPLETE_STEP" ->
         <<T("inquiry", "canProceedFromAction", <<"markActionCompleted">>),
           T("action", "none", <<"setError">>)>>
    [] type = "PROCEED_TO_NEXT" ->
         <<T("inquiry", "canProceedFromAction", <<"markActionCompleted">>)>>
    [] type = "HIGHLIGHT_ELEMENTS" -> <<T("", "none", <<"highlightElements">>)>>
    [] type = "RESET_MODULE" -> ResetT
    [] type = "ERROR" -> <<T("", "none", <<"setError">>)>>
    [] OTHER -> <<>>

\* activityMachine.states.inquiry.on
inquiryOn(type) ==
  CASE type = "SELECT_ANSWER" -> <<T("", "none", <<"selectAnswer">>)>>
    [] type = "COMPLETE_STEP" ->
         <<T("discovery", "canProceedFromInquiry", <<"markInquiryCompleted">>),
           T("", "none", <<"setError">>)>>
    [] type = "PROCEED_TO_NEXT" ->
         <<T("discovery", "canProceedFromInquiry", <<"markInquiryCompleted">>)>>
    [] type = "PROCEED_TO_PREV" -> <<T("action", "none", <<>>)>>
    [] type = "RESET_MODULE" -> ResetT
    [] OTHER -> <<>>

\* variant: SKIP_DISCOVERY is guarded like the forward events
discoveryOn_guardedSkip(type) ==
  CASE type = "COLLECT_CHIP" -> <<T("", "hasValidChip", <<"collectChip">>)>>
    [] type = "COMPLETE_STEP" ->
         <<T("misconception", "canProceedFromDiscovery", <<"markDiscoveryCompleted">>),
           T("", "none", <<"setError">>)>>
    [] type = "PROCEED_TO_NEXT" ->
         <<T("misconception", "canProceedFromDiscovery", <<"markDiscoveryCompleted">>)>>
    [] type = "SKIP_DISCOVERY" ->
         <<T("justification", "canProceedFromDiscovery", <<"markDiscoveryCompleted">>)>>
    [] type = "HIGHLIGHT_ELEMENTS" -> <<T("", "none", <<"highlightElements">>)>>
    [] type = "PROCEED_TO_PREV" -> <<T("inquiry", "none", <<>>)>>
    [] type = "RESET_MODULE" -> ResetT
    [] OTHER -> <<>>

\* activityMachine.states.discovery.on
discoveryOn(type) ==
  CASE type = "COLLECT_CHIP" -> <<T("", "hasValidChip", <<"collectChip">>)>>
    [] type = "COMPLETE_STEP" ->
         <<T("misconception", "canProceedFromDiscovery", <<"markDiscoveryCompleted">>),
           T("", "none", <<"setError">>)>>
    [] type = "PROCEED_TO_NEXT" ->
         <<T("misconception", "canProceedFromDiscovery", <<"markDiscoveryCompleted">>)>>
    [] type = "SKIP_DISCOVERY" ->
         <<T("justification", "none", <<"markDiscoveryCompleted">>)>>
    [] type = "HIGHLIGHT_ELEMENTS" -> <<T("", "none", <<"highlightElements">>)>>
    [] type = "PROCEED_TO_PREV" -> <<T("inquiry", "none", <<>>)>>
    [] type = "RESET_MODULE" -> ResetT
    [] OTHER -> <<>>

\* activityMachine.states.misconception.on
misconceptionOn(type) ==
  CASE type = "SELECT_ANSWER" -> <<T("", "none", <<"selectAnswer">>)>>
    [] type = "PROCEED_TO_NEXT" -> <<T("justification", "none", <<>>)>>
    [] type = "PROCEED_TO_PREV" -> <<T("discovery", "none", <<>>)>>
    [] type = "RESET_MODULE" -> ResetT
    [] OTHER -> <<>>

\* variant: markCompleted is missing from the actions of COMPLETE_STEP
justificationOn_noStamp(type) ==
  CASE type = "COMPLETE_STEP" ->
         <<T("completed", "none", <<"markJustificationCompleted">>)>>
    [] type = "BACK_TO_DISCOVERY" -> <<T("discovery", "none", <<>>)>>
    [] type = "PROCEED_TO_PREV" -> <<T("misconception", "none", <<>>)>>
    [] type = "RESET_MODULE" -> ResetT
    [] OTHER -> <<>>

\* activityMachine.states.justification.on
justificationOn(type) ==
  CASE type = "COMPLETE_STEP" ->
         <<T("completed", "none", <<"markJustificationCompleted", "markCompleted">>)>>
    [] type = "BACK_TO_DISCOVERY" -> <<T("discovery", "none", <<>>)>>
    [] type = "PROCEED_TO_PREV" -> <<T("misconception", "none", <<>>)>>
    [] type = "RESET_MODULE" -> ResetT
    [] OTHER -> <<>>

\* activityMachine.states.completed.on
completedOn(type) ==
  CASE type = "RESET_MODULE" -> ResetT
    [] OTHER -> <<>>

\* activityMachine.states[st].on
StateOn(st, type) ==
  CASE st = "action" -> actionOn(type)
    [] st = "inquiry" -> inquiryOn(type)
    [] st = "discovery" -> discoveryOn(type)
    [] st = "misconception" -> misconceptionOn(type)
    [] st = "justification" -> justificationOn(type)
    [] st = "completed" -> completedOn(type)

\* activityMachine.states[st].entry
Entry(st) == IF st = "action" THEN <<"clearError">> ELSE <<>>

\* the candidates for an event: the state's own entry, else the root's
Candidates(st, type) ==
  IF StateOn(st, type) # <<>> THEN StateOn(st, type) ELSE RootOn(type)

\* the enabled candidates, in document order
EnabledT(st, ctx, ev) ==
  SelectSeq(Candidates(st, ev.type), LAMBDA t : Guard(t.guard, ctx, ev))

\* one macrostep of the interpreter: the next [state, context]
Transition(st, ctx, ev) ==
  LET en == EnabledT(st, ctx, ev)
  IN IF en = <<>> THEN [state |-> st, context |-> ctx]
     ELSE LET t == Head(en)
              c1 == ExecAll(t.actions, ctx, ev)
              entered == t.target # "" /\ t.target # st
          IN [state |-> IF t.target = "" THEN st ELSE t.target,
              context |-> IF entered THEN ExecAll(Entry(t.target), c1, ev) ELSE c1]

----------------------------------------------------------------------------
\* Event payloads the environment may send

AngleInputs == {-10, 45, 95, 200}

AnswerInputs == {"coincidence", "congruence"}

HighlightInputs == {<<"angle-B", "angle-C", "angle-B">>}

ErrorInputs == {"boom"}

\* the ids named in calls, in the order a learner needs them, and one unknown id
ChipIdOrder ==
  <<"side-AB", "side-AC", "common-AD", "angle-BAD", "angle-CAD", "side-BC",
    "side-BD", "side-CD", "angle-B", "angle-C">>

ChipInputs == Range(Slice0(ChipIdOrder, MaxChipInputs)) \cup {"ghost-chip"}

\* send(ev) on the interpreter
Send(ev) ==
  LET r == Transition(state, context, ev)
  IN /\ state' = r.state
     /\ context' = r.context
     /\ event' = ev

SET_FOLD_ANGLE ==
  /\ \E a \in AngleInputs : Send([type |-> "SET_FOLD_ANGLE", angle |-> a])
  /\ UNCHANGED registryVars

COLLECT_CHIP ==
  /\ \E id \in ChipInputs : Send([type |-> "COLLECT_CHIP", chipId |-> id])
  /\ UNCHANGED registryVars

SELECT_ANSWER ==
  /\ \E a \in AnswerInputs : Send([type |-> "SELECT_ANSWER", answer |-> a])
  /\ UNCHANGED registryVars

HIGHLIGHT_ELEMENTS ==
  /\ \E els \in HighlightInputs : Send([type |-> "HIGHLIGHT_ELEMENTS", elements |-> els])
  /\ UNCHANGED registryVars

COMPLETE_STEP == Send([type |-> "COMPLETE_STEP"]) /\ UNCHANGED registryVars

PROCEED_TO_NEXT == Send([type |-> "PROCEED_TO_NEXT"]) /\ UNCHANGED registryVars

PROCEED_TO_PREV == Send([type |-> "PROCEED_TO_PREV"]) /\ UNCHANGED registryVars

RESET_MODULE == Send([type |-> "RESET_MODULE"]) /\ UNCHANGED registryVars

VALIDATE_PROGRESS == Send([type |-> "VALIDATE_PROGRESS"]) /\ UNCHANGED registryVars

SKIP_DISCOVERY == Send([type |-> "SKIP_DISCOVERY"]) /\ UNCHANGED registryVars

BACK_TO_DISCOVERY == Send([type |-> "BACK_TO_DISCOVERY"]) /\ UNCHANGED registryVars

ERROR ==
  /\ \E e \in ErrorInputs : Send([type |-> "ERROR", error |-> e])
  /\ UNCHANGED registryVars

----------------------------------------------------------------------------
\* Calls on the registry.  `call` records the last call and what it returned;
\* its bit n flips at every call, so that two equal calls in a row are two steps.

registry == Reg(chips, collectedChips)

SetRegistry(reg) ==
  /\ chips' = reg.chips
  /\ collectedChips' = reg.collectedChips

Called(c) == call' = AssignMerge(c, [n |-> 1 - call.n])

UpdateAvailability ==
  /\ \E t \in TriangleInputs :
       /\ SetRegistry(updateAvailability(registry, t))
       /\ Called([op |-> "updateAvailability", triangle |-> t])
  /\ UNCHANGED <<saved, machineVars>>

CollectChip ==
  /\ \E id \in ChipInputs, t \in TriangleInputs :
       /\ SetRegistry(ChipSystem_collectChip(registry, id, t))
       /\ Called([op |-> "collectChip", chipId |-> id, triangle |-> t,
                  ret |-> collectChipAccepts(registry, id, t)])
  /\ UNCHANGED <<saved, machineVars>>

UncollectChip ==
  /\ \E id \in ChipInputs :
       /\ SetRegistry(uncollectChip(registry, id))
       /\ Called([op |-> "uncollectChip", chipId |-> id,
                  ret |-> uncollectChipAccepts(registry, id)])
  /\ UNCHANGED <<saved, machineVars>>

Reset ==
  /\ SetRegistry(reset(registry))
  /\ Called([op |-> "reset"])
  /\ UNCHANGED <<saved, machineVars>>

\* exportState(): the record goes to the external store
ExportState ==
  /\ saved' = <<exportState(registry)>>
  /\ Called([op |-> "exportState"])
  /\ UNCHANGED <<chips, collectedChips, machineVars>>

\* importState(record) of the record last exported
ImportState ==
  /\ saved # <<>>
  /\ SetRegistry(importState(registry, saved[1]))
  /\ Called([op |-> "importState", state |-> saved[1]])
  /\ UNCHANGED <<saved, machineVars>>

\* records of the importState parameter type that no exportState produced
ForeignStates ==
  { [collectedChips |-> ChipIdSet \cup {"ghost-chip"}, chipStates |-> <<>>],
    [collectedChips |-> {"side-BC"},
     chipStates |-> [id \in {"side-BC"} |-> [collected |-> TRUE, isAvailable |-> TRUE]]] }

ImportForeignState ==
  /\ \E st \in ForeignStates :
       /\ SetRegistry(importState(registry, st))
       /\ Called([op |-> "importState", state |-> st])
  /\ UNCHANGED <<saved, machineVars>>

\* the same calls with every id of CHIP_DEFINITIONS (and one unknown id) as
\* argument; `call` is not kept here
AnyChipInputs == ChipIdSet \cup {"ghost-chip"}

CollectAnyChip ==
  /\ \E id \in AnyChipInputs, t \in TriangleInputs :
       SetRegistry(ChipSystem_collectChip(registry, id, t))
  /\ UNCHANGED <<saved, call, machineVars>>

UncollectAnyChip ==
  /\ \E id \in AnyChipInputs : SetRegistry(uncollectChip(registry, id))
  /\ UNCHANGED <<saved, call, machineVars>>

UpdateAnyAvailability ==
  /\ \E t \in TriangleInputs : SetRegistry(updateAvailability(registry, t))
  /\ UNCHANGED <<saved, call, machineVars>>

ResetAny ==
  /\ SetRegistry(reset(registry))
  /\ UNCHANGED <<saved, call, machineVars>>

----------------------------------------------------------------------------
\* useIsoscelesActivity.ts: the module-1 host, one registry and one machine.
\* `call` belongs to the direct callers of the registry above and is left alone.

\* chipSystemData: every render refreshes availability
HostRender ==
  /\ SetRegistry(updateAvailability(registry, ISOSCELES_TRIANGLE))
  /\ UNCHANGED <<saved, call, machineVars>>

HostSetFoldAngle == SET_FOLD_ANGLE

HostCollectChip ==
  /\ \E chipId \in ChipInputs :
       LET r1 == updateAvailability(registry, ISOSCELES_TRIANGLE)
           ok == collectChipAccepts(r1, chipId, ISOSCELES_TRIANGLE)
       IN /\ SetRegistry(ChipSystem_collectChip(r1, chipId, ISOSCELES_TRIANGLE))
          /\ IF ok THEN Send([type |-> "COLLECT_CHIP", chipId |-> chipId])
             ELSE UNCHANGED machineVars
  /\ UNCHANGED <<saved, call>>

HostSelectAnswer == SELECT_ANSWER

HostProceedToNext == PROCEED_TO_NEXT

HostProceedToPrev == PROCEED_TO_PREV

HostResetModule ==
  /\ SetRegistry(reset(registry))
  /\ Send([type |-> "RESET_MODULE"])
  /\ UNCHANGED <<saved, call>>

HostHighlightElements == HIGHLIGHT_ELEMENTS

\* IsoscelesBaseAnglesFeature.tsx, handleTriangleElementClick: the page
\* collects a chip only in the discovery step
LearnerCollectChip ==
  /\ state = "discovery"
  /\ HostCollectChip

\* the steps of a learner who works towards the end of the module
Advance == HostProceedToNext /\ state' # state

FoldEnough == HostSetFoldAngle /\ context'.foldAngle >= 90

AnswerRight == HostSelectAnswer /\ context'.selectedAnswer = "congruence"

CollectNew == LearnerCollectChip /\ context'.collectedChips # context.collectedChips

----------------------------------------------------------------------------
\* Calls of the geometry functions.  A call is recorded in `call` with its
\* arguments and its return value.

\* createRightTrianglesPair(): t1 and its translated copy t2
RIGHT_T1 == [A |-> Pt(1000, 1000), B |-> Pt(1000, 2500), C |-> Pt(3000, 1000)]

RIGHT_T2 == [A |-> Pt(5000, 1000), B |-> Pt(5000, 2500), C |-> Pt(7000, 1000)]

\* t1 with the labels B and C exchanged
RIGHT_T1_SWAPPED == [A |-> Pt(1000, 1000), B |-> Pt(3000, 1000), C |-> Pt(1000, 2500)]

\* two small right triangles of different shape
UNIT_RIGHT == [A |-> Pt(0, 0), B |-> Pt(1000, 0), C |-> Pt(0, 1000)]

FLAT_RIGHT == [A |-> Pt(0, 0), B |-> Pt(2000, 0), C |-> Pt(2000, 1000)]

\* an isosceles triangle and its enlargement by 2
TALL == [A |-> Pt(1000, 2000), B |-> Pt(0, 0), C |-> Pt(2000, 0)]

TALL_DOUBLE == [A |-> Pt(2000, 4000), B |-> Pt(0, 0), C |-> Pt(4000, 0)]

\* two large right triangles with nearly the same hypotenuse, the right angle
\* at A in one and at B in the other
BIG_RIGHT == [A |-> Pt(0, 0), B |-> Pt(80000, 0), C |-> Pt(0, 80000)]

BIG_SKEWED == [A |-> Pt(82000, 0), B |-> Pt(0, 0), C |-> Pt(0, 78000)]

CongruenceInputs ==
  {RIGHT_T1, RIGHT_T2, RIGHT_T1_SWAPPED, UNIT_RIGHT, FLAT_RIGHT, TALL, TALL_DOUBLE,
   BIG_RIGHT, BIG_SKEWED}

\* tolerances: 0, the default 0.001, 1.5 and 2.1
ToleranceInputs == {0, DefaultTolerance, 1500, 2100}

\* lengths and angles compared by isEqual and isAngleEqual
ValueInputs == {0, 1, 2, 1500, 90000}

IsEqual ==
  /\ \E v1 \in ValueInputs, v2 \in ValueInputs, tol \in ToleranceInputs :
       Called([op |-> "isEqual", value1 |-> v1, value2 |-> v2, tolerance |-> tol,
               ret |-> isEqual(v1, v2, tol)])
  /\ UNCHANGED <<chips, collectedChips, saved, machineVars>>

IsAngleEqual ==
  /\ \E a1 \in ValueInputs, a2 \in ValueInputs, tol \in ToleranceInputs :
       Called([op |-> "isAngleEqual", value1 |-> a1, value2 |-> a2, tolerance |-> tol,
               ret |-> isAngleEqual(a1, a2, tol)])
  /\ UNCHANGED <<chips, collectedChips, saved, machineVars>>

\* fold angles on both sides of 85, 90, 170 and 180 degrees
FoldAngleInputs ==
  {-10000, 0, 84999, 85000, 89999, 90000, 132500, 169999, 170000, 180000, 200000}

DetectOverlap ==
  /\ \E t \in TriangleInputs, a \in FoldAngleInputs :
       Called([op |-> "detectOverlap", triangle |-> t, foldAngle |-> a,
               ret |-> detectOverlap(t, a)])
  /\ UNCHANGED <<chips, collectedChips, saved, machineVars>>

\* known angles around 0, 90 and 180 degrees
KnownAngleInputs == {-1, 0, 1, 60000, 89999, 90000, 90001, 179999, 180000}

CalculateThirdAngle ==
  /\ \E a \in KnownAngleInputs, b \in KnownAngleInputs :
       Called([op |-> "calculateThirdAngle", angleA |-> a, angleB |-> b,
               ret |-> calculateThirdAngle(a, b)])
  /\ UNCHANGED <<chips, collectedChips, saved, machineVars>>

\* a right isosceles triangle whose apex A looks along the negative x axis
LEFT_FACING == [A |-> Pt(0, 0), B |-> Pt(-1000, 1000), C |-> Pt(-1000, -1000)]

MeasureInputs == CongruenceInputs \cup TriangleInputs \cup {LEFT_FACING}

MeasureTriangle ==
  /\ \E t \in MeasureInputs :
       Called([op |-> "measureTriangle", triangle |-> t, ret |-> measureTriangle(t)])
  /\ UNCHANGED <<chips, collectedChips, saved, machineVars>>

\* checkCongruence of each input, evaluated once
CheckCongruenceOf ==
  [t1 \in CongruenceInputs, t2 \in CongruenceInputs, tol \in ToleranceInputs |->
     checkCongruence(t1, t2, tol)]

CheckCongruence ==
  /\ \E t1 \in CongruenceInputs, t2 \in CongruenceInputs, tol \in ToleranceInputs :
       Called([op |-> "checkCongruence", triangle1 |-> t1, triangle2 |-> t2,
               tolerance |-> tol, ret |-> CheckCongruenceOf[t1, t2, tol]])
  /\ UNCHANGED <<chips, collectedChips, saved, machineVars>>

----------------------------------------------------------------------------
Init ==
  /\ state = "action"
  /\ context = initialContext
  /\ event = [type |-> "xstate.init"]
  /\ chips = initializeChips.chips
  /\ collectedChips = initializeChips.collectedChips
  /\ saved = <<>>
  /\ call = [op |-> "constructor", n |-> 0]

\* the machine alone, under every event of ActivityEvent
Next ==
  \/ SET_FOLD_ANGLE
  \/ COLLECT_CHIP
  \/ SELECT_ANSWER
  \/ HIGHLIGHT_ELEMENTS
  \/ COMPLETE_STEP
  \/ PROCEED_TO_NEXT
  \/ PROCEED_TO_PREV
  \/ RESET_MODULE
  \/ VALIDATE_PROGRESS
  \/ SKIP_DISCOVERY
  \/ BACK_TO_DISCOVERY
  \/ ERROR

Spec == Init /\ [][Next]_vars

\* the registry alone, persisted through exportState/importState
NextRegistry ==
  \/ UpdateAvailability
  \/ CollectChip
  \/ UncollectChip
  \/ Reset
  \/ ExportState
  \/ ImportState

SpecRegistry == Init /\ [][NextRegistry]_vars

\* the registry alone, importState open to any record of its parameter type
NextRegistryOpen ==
  \/ UpdateAvailability
  \/ CollectChip
  \/ UncollectChip
  \/ Reset
  \/ ImportForeignState

SpecRegistryOpen == Init /\ [][NextRegistryOpen]_vars

\* the registry alone, every chip id collectable
NextCollection ==
  \/ UpdateAnyAvailability
  \/ CollectAnyChip
  \/ UncollectAnyChip
  \/ ResetAny

SpecCollection == Init /\ [][NextCollection]_vars

\* calls of the geometry functions
NextGeometry ==
  \/ CheckCongruence
  \/ IsEqual
  \/ IsAngleEqual
  \/ DetectOverlap
  \/ CalculateThirdAngle
  \/ MeasureTriangle

SpecGeometry == Init /\ [][NextGeometry]_vars

\* registry and machine driven by the module-1 host
NextHost ==
  \/ HostRender
  \/ HostSetFoldAngle
  \/ HostCollectChip
  \/ HostSelectAnswer
  \/ HostProceedToNext
  \/ HostProceedToPrev
  \/ HostResetModule
  \/ HostHighlightElements

SpecHost == Init /\ [][NextHost]_vars

\* the module-1 page used by a learner who never steps back or resets and who
\* keeps folding, answering, collecting and pressing the next button
NextLearner ==
  \/ HostRender
  \/ HostSetFoldAngle
  \/ HostSelectAnswer
  \/ LearnerCollectChip
  \/ HostHighlightElements
  \/ HostProceedToNext

SpecLearner ==
  /\ Init
  /\ [][NextLearner]_vars
  /\ SF_vars(Advance)
  /\ WF_vars(FoldEnough)
  /\ WF_vars(AnswerRight)
  /\ WF_vars(CollectNew)

----------------------------------------------------------------------------
\* Properties

ForwardEvents == {"COMPLETE_STEP", "PROCEED_TO_NEXT"}

GuardedStates == {"action", "inquiry", "discovery"}

\* the documented condition for leaving a guarded state forwards
ForwardCondition(st, ctx) ==
  CASE st = "action" -> ctx.foldAngle >= 90
    [] st = "inquiry" -> ctx.selectedAnswer = "congruence"
    [] st = "discovery" ->
         \E p \in 1..Len(SAS_PATTERNS) :
           Range(SAS_PATTERNS[p].requiredChips) \subseteq Range(ctx.collectedChips)

\* the chain of pedagogical steps
Chain ==
  <<"action", "inquiry", "discovery", "misconception", "justification", "completed">>

IndexOf(st) == CHOOSE i \in 1..Len(Chain) : Chain[i] = st

\* the required set of the SAS teaching pattern
RequiredSAS == {"angle-BAD", "angle-CAD", "side-AB", "side-AC", "common-AD"}

\* C1: in every control state SET_FOLD_ANGLE{angle} stores
\* min(180, max(0, angle)) in context.foldAngle and keeps the control state;
\* context.foldAngle is within [0,180] in every reachable state.
C1_SetFoldAngleClamps ==
  /\ [](context.foldAngle \in 0..180)
  /\ [][event'.type = "SET_FOLD_ANGLE" =>
          /\ state' = state
          /\ context'.foldAngle = Min(180, Max(0, event'.angle))]_vars

\* C1 witness: an out-of-range angle sent in the last state of the chain
C1_Witness ==
  /\ state = "completed"
  /\ event.type = "SET_FOLD_ANGLE"
  /\ event.angle = 200
  /\ context.foldAngle = 180

\* C2: a forward event whose guard fails leaves the control state in place;
\* action -> inquiry only with foldAngle >= 90, inquiry -> discovery only with
\* selectedAnswer = 'congruence', discovery -> misconception only when the
\* collected chips contain every id of some SAS_PATTERNS pattern.
C2_GuardedForward ==
  [][/\ (event'.type \in ForwardEvents /\ state \in GuardedStates
           /\ ~ForwardCondition(state, context)) => state' = state
     /\ (state = "action" /\ state' = "inquiry") => context.foldAngle >= 90
     /\ (state = "inquiry" /\ state' = "discovery") =>
          context.selectedAnswer = "congruence"
     /\ (state = "discovery" /\ state' = "misconception") =>
          ForwardCondition("discovery", context)]_vars

\* C2 witness: PROCEED_TO_NEXT refused in discovery with one chip collected
C2_Witness ==
  /\ event.type = "PROCEED_TO_NEXT"
  /\ state = "discovery"
  /\ context.collectedChips = <<"side-AB">>

\* C3: in action, inquiry and discovery a COMPLETE_STEP or PROCEED_TO_NEXT
\* whose guard fails leaves a non-null context.error.
C3_GuardFailureRecordsError ==
  [][(event'.type \in ForwardEvents /\ state \in GuardedStates
        /\ ~ForwardCondition(state, context)) => context'.error # Null]_vars

\* C4: RESET_MODULE is accepted in every state, enters action and leaves a
\* context equal to the initial snapshot (no completedAt).
C4_ResetRestoresInitial ==
  event.type = "RESET_MODULE" => (state = "action" /\ context = initialContext)

\* C5: PROCEED_TO_PREV steps one state back along the chain from every state
\* but action, completed included, and is ignored in action.
C5_PrevStepsBack ==
  [][event'.type = "PROCEED_TO_PREV" =>
       IF state = "action" THEN state' = "action" /\ context' = context
       ELSE state' = Chain[IndexOf(state) - 1]]_vars

\* C6: under the module-1 host every id in ActivityContext.collectedChips is
\* collected = true in the registry.
C6_MachineChipsCollectedInRegistry ==
  \A i \in 1..Len(context.collectedChips) :
    /\ context.collectedChips[i] \in DOMAIN chips
    /\ chips[context.collectedChips[i]].collected

\* C6 witness: chips collected through the host, the machine past discovery
C6_Witness ==
  /\ state = "misconception"
  /\ Len(context.collectedChips) >= 3
  /\ "side-AB" \in collectedChips

\* C7: collectChip returns true exactly when the chip exists, is not
\* collected, is available and its rule holds for this call's arguments; on
\* true it sets collected and adds the id to the collected-set, on false the
\* registry is unchanged; a second call with the same id returns false.
C7_CollectChipContract ==
  [][call'.op = "collectChip" =>
       LET id == call'.chipId
           ok == /\ id \in DOMAIN chips
                 /\ ~chips[id].collected
                 /\ chips[id].isAvailable
                 /\ validationRule(id, call'.triangle)
       IN /\ call'.ret = ok
          /\ ok => /\ chips' = [chips EXCEPT ![id].collected = TRUE]
                   /\ collectedChips' = collectedChips \cup {id}
          /\ ~ok => UNCHANGED <<chips, collectedChips>>
          /\ (call.op = "collectChip" /\ call.ret /\ call.chipId = id)
               => ~call'.ret]_vars

\* C7 witness: the same id collected and then refused
C7_Witness ==
  /\ call.op = "collectChip"
  /\ call.chipId = "side-AB"
  /\ ~call.ret
  /\ chips["side-AB"].collected
  /\ chips["side-AB"].isAvailable

\* C8: checkSASCompletion() and isSASChipSetComplete(ids) are both true iff
\* the id set contains the required set; {side-AB, side-AC, common-AD} is
\* not complete.
C8_SASCompletionIsSuperset ==
  /\ checkSASCompletion(registry) = (RequiredSAS \subseteq collectedChips)
  /\ isSASChipSetComplete(collectedChips) = (RequiredSAS \subseteq collectedChips)
  /\ ~isSASChipSetComplete({"side-AB", "side-AC", "common-AD"})

\* C9: importing an exportState() record leaves a registry whose
\* exportState() has the same collectedChips and the same
\* {collected, isAvailable} pair for every chip id.
C9_ExportImportRoundTrip ==
  call.op = "importState" =>
    /\ exportState(registry).collectedChips = call.state.collectedChips
    /\ \A id \in ChipIdSet :
         /\ id \in DOMAIN call.state.chipStates
         /\ exportState(registry).chipStates[id] = call.state.chipStates[id]

\* C9 witness: a record with collected and available chips has been imported
C9_Witness ==
  /\ call.op = "importState"
  /\ Cardinality(collectedChips) >= 2
  /\ chips["common-AD"].isAvailable

\* C10: getProgress().collected never exceeds getProgress().total.
C10_CollectedWithinTotal ==
  getProgress(registry).collected <= getProgress(registry).total

\* position of a required id in the fixed order of validateChipCombination
RequiredIndex(id) ==
  CHOOSE i \in 1..Len(REQUIRED_CHIPS) : REQUIRED_CHIPS[i] = id

\* C11: validateCollection has isValid iff all five required ids are
\* collected, congruenceType 'SAS' iff isValid and null otherwise, and
\* missingChips exactly the required ids not collected, in the fixed order;
\* a collected non-required chip changes neither isValid nor missingChips.
C11_ValidateCollection ==
  LET v == validateCollection(registry)
      m == v.missingChips
  IN /\ v.isValid = (RequiredSAS \subseteq collectedChips)
     /\ v.congruenceType = (IF v.isValid THEN "SAS" ELSE Null)
     /\ Range(m) = RequiredSAS \ collectedChips
     /\ \A i, j \in 1..Len(m) : i < j => RequiredIndex(m[i]) < RequiredIndex(m[j])
     /\ \A x \in ChipIdSet \ RequiredSAS :
          LET w == validateCollection(Reg(chips, collectedChips \ {x}))
          IN w.isValid = v.isValid /\ w.missingChips = m

\* C11 witness: three required and two non-required chips collected
C11_Witness ==
  /\ collectedChips = {"side-AB", "side-AC", "common-AD", "side-BC", "angle-B"}
  /\ validateCollection(registry).missingChips = <<"angle-BAD", "angle-CAD">>

\* C12: with the guard of the current state passing, COMPLETE_STEP and
\* PROCEED_TO_NEXT in action, inquiry or discovery enter the next state of
\* the chain and set exactly that step's stepCompletion flag.
C12_ForwardMarksStep ==
  [][(event'.type \in ForwardEvents /\ state \in GuardedStates
        /\ ForwardCondition(state, context)) =>
       /\ state' = Chain[IndexOf(state) + 1]
       /\ context'.stepCompletion = [context.stepCompletion EXCEPT ![state] = TRUE]]_vars

\* C12 witness: COMPLETE_STEP taken in action with foldAngle = 95
C12_Witness ==
  /\ state = "inquiry"
  /\ event.type = "COMPLETE_STEP"
  /\ context.foldAngle = 95
  /\ context.stepCompletion =
       [action |-> TRUE, inquiry |-> FALSE, discovery |-> FALSE,
        misconception |-> FALSE, justification |-> FALSE]

C14_ErrorClearedOnStateChange ==
  [][(state' # state \/ event'.type = "RESET_MODULE") => context'.error = Null]_vars

\* C15: COLLECT_CHIP{chipId} appends chipId to context.collectedChips only
\* when the machine is in discovery, chipId is an id of CHIP_DEFINITIONS and
\* chipId is not already present; otherwise the context is unchanged.  Hence
\* context.collectedChips never holds a duplicate or an unknown id.
C15_CollectChipGuarded ==
  /\ [][event'.type = "COLLECT_CHIP" =>
          /\ state' = state
          /\ context' =
               IF /\ state = "discovery"
                  /\ event'.chipId \in ChipIdSet
                  /\ event'.chipId \notin Range(context.collectedChips)
               THEN [context EXCEPT !.collectedChips = Append(@, event'.chipId)]
               ELSE context]_vars
  /\ [](/\ Range(context.collectedChips) \subseteq ChipIdSet
        /\ \A i, j \in 1..Len(context.collectedChips) :
             context.collectedChips[i] = context.collectedChips[j] => i = j)

\* C15 witness: an unknown id and a repeated id have been refused after two
\* chips were appended
C15_Witness ==
  /\ state = "discovery"
  /\ event.type = "COLLECT_CHIP"
  /\ event.chipId \in {"ghost-chip", "side-AB"}
  /\ context.collectedChips = <<"side-AC", "side-AB">>

\* C16: uncollectChip(id) returns false and changes nothing when the chip does
\* not exist or is not collected; otherwise it returns true, clears the
\* collected flag and removes the id from the collected-set, leaving
\* isAvailable alone.  collectChip followed by uncollectChip of the same id
\* restores the registry, and the chip can be collected again.
C16_UncollectChipContract ==
  /\ [][call'.op = "uncollectChip" =>
          LET id == call'.chipId
              ok == id \in DOMAIN chips /\ chips[id].collected
          IN /\ call'.ret = ok
             /\ ok => /\ chips' = [chips EXCEPT ![id].collected = FALSE]
                      /\ collectedChips' = collectedChips \ {id}
             /\ ~ok => UNCHANGED <<chips, collectedChips>>
             /\ (call.op = "collectChip" /\ call.ret /\ call.chipId = id)
                  => /\ call'.ret
                     /\ collectChipAccepts(registry', id, call.triangle)]_vars
  /\ [](\A id \in ChipInputs, t \in TriangleInputs :
          collectChipAccepts(registry, id, t) =>
            LET r1 == ChipSystem_collectChip(registry, id, t)
            IN /\ uncollectChipAccepts(r1, id)
               /\ uncollectChip(r1, id) = registry)

\* C16 witness: a chip collected and then taken back while another stays
C16_Witness ==
  /\ call.op = "uncollectChip"
  /\ call.chipId = "side-AB"
  /\ call.ret
  /\ ~chips["side-AB"].collected
  /\ chips["side-AB"].isAvailable
  /\ collectedChips = {"side-AC"}

\* C17: SKIP_DISCOVERY is handled only in discovery, where it moves to
\* justification whatever chips are collected and sets
\* stepCompletion.discovery; BACK_TO_DISCOVERY is handled only in
\* justification, where it moves to discovery; in every other state both
\* events leave control state and context unchanged.
C17_DiscoveryShortcuts ==
  [][/\ event'.type = "SKIP_DISCOVERY" =>
          IF state = "discovery"
          THEN /\ state' = "justification"
               /\ context' = [context EXCEPT !.stepCompletion.discovery = TRUE]
          ELSE state' = state /\ context' = context
     /\ event'.type = "BACK_TO_DISCOVERY" =>
          IF state = "justification"
          THEN state' = "discovery" /\ context' = context
          ELSE state' = state /\ context' = context]_vars

\* C17 witness: discovery skipped with no chip collected, then re-entered
\* from justification
C17_Witness ==
  /\ state = "discovery"
  /\ event.type = "BACK_TO_DISCOVERY"
  /\ context.collectedChips = <<>>
  /\ context.stepCompletion.discovery
  /\ ~context.stepCompletion.misconception

\* the priority order of checkCongruence
PriorityOrder == <<"SAS", "ASA", "SSS", "RHS", "RHA">>

\* C18: checkCongruence returns the first success in the order SAS, ASA, SSS,
\* RHS, RHA: its result has type T exactly when check T succeeds and every
\* check before T returns null, and it is null exactly when all five are.
C18_FirstSuccessInOrder ==
  call.op = "checkCongruence" =>
    LET r == call.ret
        ok(k) == Check(PriorityOrder[k], call.triangle1, call.triangle2,
                       call.tolerance) # NoCondition
    IN /\ \A k \in 1..Len(PriorityOrder) :
            (r # NoCondition /\ r[1].type = PriorityOrder[k])
              <=> (ok(k) /\ \A j \in 1..(k - 1) : ~ok(j))
       /\ (r = NoCondition) <=> (\A k \in 1..Len(PriorityOrder) : ~ok(k))

\* C18 witness: SAS and ASA fail, SSS is returned although RHS succeeds too
C18_Witness ==
  /\ call.op = "checkCongruence"
  /\ call.ret # NoCondition
  /\ call.ret[1].type = "SSS"
  /\ checkSAS(call.triangle1, call.triangle2, call.tolerance) = NoCondition
  /\ checkRHS(call.triangle1, call.triangle2, call.tolerance) # NoCondition

\* C19: isEqual and isAngleEqual are reflexive and symmetric for every pair
\* of values and every tolerance >= 0, including 0.
C19_EqualReflexiveSymmetric ==
  /\ call.op = "isEqual" =>
       /\ isEqual(call.value1, call.value1, call.tolerance)
       /\ call.ret = isEqual(call.value2, call.value1, call.tolerance)
  /\ call.op = "isAngleEqual" =>
       /\ isAngleEqual(call.value1, call.value1, call.tolerance)
       /\ call.ret = isAngleEqual(call.value2, call.value1, call.tolerance)

\* C20: detectOverlap(t, foldAngle) is a step function of foldAngle that does
\* not depend on t: below 85 it returns no overlap, percentage 0 and no
\* elements; from 85 on it returns an overlap of 100 * (foldAngle - 85) / 95
\* percent capped at 100, with no elements below 90, angle-B and angle-C from
\* 90 on and side-BC-segments added from 170 on.
C20_DetectOverlapSteps ==
  call.op = "detectOverlap" =>
    LET a == call.foldAngle
        r == call.ret
    IN /\ a < 85000 =>
            r = [isOverlapping |-> FALSE, overlapPercentage |-> 0,
                 overlappingElements |-> <<>>]
       /\ a >= 85000 =>
            /\ r.isOverlapping
            /\ r.overlapPercentage =
                 (IF a >= 180000 THEN 100000 ELSE (100 * (a - 85000)) \div 95)
            /\ r.overlappingElements =
                 (IF a < 90000 THEN <<>>
                  ELSE IF a < 170000 THEN <<"angle-B", "angle-C">>
                  ELSE <<"angle-B", "angle-C", "side-BC-segments">>)
       /\ \A t \in CongruenceInputs \cup TriangleInputs : detectOverlap(t, a) = r

\* C20 witness: at 170 degrees the segments of BC are reported
C20_Witness ==
  /\ call.op = "detectOverlap"
  /\ call.foldAngle = 170000
  /\ call.ret.overlapPercentage = 89473
  /\ Includes(call.ret.overlappingElements, "side-BC-segments")

\* C21: calculateThirdAngle(angleA, angleB) raises exactly when angleA < 0,
\* angleB < 0 or angleA + angleB >= 180; otherwise it returns
\* 180 - angleA - angleB, which is strictly positive and completes the sum
\* of the three angles to 180.
C21_ThirdAngle ==
  call.op = "calculateThirdAngle" =>
    LET a == call.angleA
        b == call.angleB
        r == call.ret
    IN /\ r.threw = (a < 0 \/ b < 0 \/ a + b >= 180000)
       /\ ~r.threw => /\ r.value = 180000 - a - b
                      /\ r.value > 0
                      /\ a + b + r.value = 180000

\* C21 witness: the largest accepted sum leaves the smallest third angle
C21_Witness ==
  /\ call.op = "calculateThirdAngle"
  /\ call.angleA = 90000
  /\ call.angleB = 89999
  /\ call.ret = Returned(1)

\* C22: the three angles measureTriangle returns for a valid triangle sum to
\* 180 degrees within tolerance, and each of them lies in [0, 180], for every
\* ordering and placement of the vertices.
C22_AnglesSumTo180 ==
  call.op = "measureTriangle" =>
    LET angles == call.ret.angles
    IN /\ isAngleEqual(angles.A + angles.B + angles.C, 180000, DefaultTolerance)
       /\ \A v \in {"A", "B", "C"} : 0 <= angles[v] /\ angles[v] <= 180000

\* C23: with only the events the module-1 host sends (its final-confirmation
\* button sends PROCEED_TO_NEXT, never COMPLETE_STEP) the machine reaches the
\* terminal state completed from action.
C23_HostReachesCompleted == <>(state = "completed")

\* C24: COMPLETE_STEP and PROCEED_TO_NEXT are interchangeable: in every
\* state but completed both are handled and, for the same context, lead to
\* the same target state.
C24_ForwardEventsInterchangeable ==
  state # "completed" =>
    /\ Candidates(state, "COMPLETE_STEP") # <<>>
    /\ Candidates(state, "PROCEED_TO_NEXT") # <<>>
    /\ Transition(state, context, [type |-> "COMPLETE_STEP"]).state
         = Transition(state, context, [type |-> "PROCEED_TO_NEXT"]).state

\* C25: on every set of collected ids canProceedFromDiscovery holds only if
\* isSASChipSetComplete holds, so the machine never leaves discovery for
\* misconception with angle-BAD or angle-CAD uncollected.
C25_GuardAgreesWithRegistry ==
  /\ [](canProceedFromDiscovery(context)
          => isSASChipSetComplete(Range(context.collectedChips)))
  /\ [][(state = "discovery" /\ state' = "misconception")
          => {"angle-BAD", "angle-CAD"} \subseteq Range(context.collectedChips)]_vars

\* C26: after any sequence of collectChip, uncollectChip, updateAvailability,
\* reset and importState(exportState()) calls the collected-set equals the
\* set of chips whose collected flag is true, and getCollectedChips() returns
\* exactly those chips.
C26_CollectionRecordsAgree ==
  /\ collectedChips = {id \in DOMAIN chips : chips[id].collected}
  /\ Range(getCollectedChips(registry)) = collectedChips
  /\ Len(getCollectedChips(registry)) = Cardinality(collectedChips)

\* C26 witness: three chips collected, one of them taken back
C26_Witness ==
  /\ call.op = "uncollectChip"
  /\ call.ret
  /\ getCollectedChips(registry) = <<"side-AC", "common-AD">>

\* C27: validateCollection().completionPercentage stays within 0..100: it is
\* 100 when isValid is true, otherwise round(100 * collectedCount / 4), and
\* it is below 100 whenever isValid is false.
C27_PercentageWithinRange ==
  LET v == validateCollection(registry)
      p == v.completionPercentage
  IN /\ 0 <= p /\ p <= 100
     /\ v.isValid => p = 100
     /\ ~v.isValid => /\ p = RoundDiv(100 * Cardinality(collectedChips), 4)
                      /\ p < 100

\* C28: in completed all five stepCompletion flags are true; and between two
\* RESET_MODULE events a flag that is true never returns to false.
C28_StepFlags ==
  /\ [](state = "completed" =>
          \A k \in DOMAIN context.stepCompletion : context.stepCompletion[k])
  /\ [][event'.type # "RESET_MODULE" =>
          \A k \in DOMAIN context.stepCompletion :
            context.stepCompletion[k] => context'.stepCompletion[k]]_vars

\* C29: updateAvailability(triangle, foldPoint) sets every chip's isAvailable
\* to the value of its rule on the given triangle and leaves every collected
\* flag and the collected-set unchanged: a collected chip stays collected
\* even when the new triangle makes it unavailable.
C29_UpdateAvailabilityFrame ==
  [][call'.op = "updateAvailability" =>
       /\ chips' = [id \in DOMAIN chips |->
                      [collected |-> chips[id].collected,
                       isAvailable |-> validationRule(id, call'.triangle)]]
       /\ collectedChips' = collectedChips]_vars

\* C29 witness: side-AB, collected on the isosceles triangle, is unavailable
\* on the scalene one and still collected
C29_Witness ==
  /\ call.op = "updateAvailability"
  /\ call.triangle = SCALENE_TRIANGLE
  /\ chips["side-AB"].collected
  /\ ~chips["side-AB"].isAvailable
  /\ chips["common-AD"].isAvailable
  /\ "side-AB" \in collectedChips

\* the states whose `on` declares each of the events C30 names
C30_DeclaredIn(type) ==
  CASE type = "SELECT_ANSWER" -> {"inquiry", "misconception"}
    [] type = "COLLECT_CHIP" -> {"discovery"}
    [] type = "HIGHLIGHT_ELEMENTS" -> {"action", "discovery"}
    [] type = "ERROR" -> {"action"}
    [] type = "COMPLETE_STEP" -> {"action", "inquiry", "discovery", "justification"}
    [] type = "PROCEED_TO_NEXT" -> {"action", "inquiry", "discovery", "misconception"}
    [] OTHER -> {}

\* the context field each data event writes
C30_OwnField(type) ==
  CASE type = "SELECT_ANSWER" -> "selectedAnswer"
    [] type = "COLLECT_CHIP" -> "collectedChips"
    [] type = "HIGHLIGHT_ELEMENTS" -> "highlightedElements"
    [] type = "ERROR" -> "error"

C30_DataEvents == {"SELECT_ANSWER", "COLLECT_CHIP", "HIGHLIGHT_ELEMENTS", "ERROR"}

C30_NamedEvents == C30_DataEvents \cup {"COMPLETE_STEP", "PROCEED_TO_NEXT"}

====
